---- MODULE Spec2Model ----
(***************************************************************************)
(* A model of evcxr's CommandContext (src/evcxr/src/command_context.rs):   *)
(* the dispatcher that splits one input into directive and code segments,  *)
(* runs the directives against a working ContextState, and forwards the    *)
(* remaining code to the evaluation engine.                                *)
(*                                                                         *)
(* Source text is a sequence of one-character strings, so that positions   *)
(* are counted in characters exactly as the code counts them.              *)
(***************************************************************************)
EXTENDS Integers, Sequences, FiniteSets, TLC

VARIABLES
    print_timings,   \* CommandContext.print_timings
    last_errors,     \* CommandContext.last_errors
    eval_context,    \* CommandContext.eval_context (the engine's committed side)
    stack,           \* the real-mode interactions in progress, innermost last
    returned,        \* what the last finished top-level call handed to its caller
    process,         \* "running", "exited" (std::process::exit) or "panicked"
    diagnostics      \* what the crash guards have printed, in order

vars == <<print_timings, last_errors, eval_context, stack, returned, process, diagnostics>>

----------------------------------------------------------------------------
(* Bounds of the model *)

\* The longest input, in segments, that a front-end submits.
MaxSegs == 2

----------------------------------------------------------------------------
(* Text *)

RECURSIVE Str(_)
\* The string made of the characters of cs (String: FromIterator<char>).
Str(cs) == IF cs = <<>> THEN "" ELSE Head(cs) \o Str(Tail(cs))

RECURSIVE Concat(_)
\* The concatenation of a sequence of strings (String::push_str in a loop).
Concat(ss) == IF ss = <<>> THEN "" ELSE Head(ss) \o Concat(Tail(ss))

\* Option<T>: None is the empty sequence, Some(v) the one-element sequence.
None == <<>>
Some(v) == <<v>>
IsSome(o) == o # <<>>

\* The index of the first position of cs at or after i that satisfies the
\* test "is a space" = want, or 0 when there is none.
RECURSIVE FindFrom(_, _, _)
FindFrom(cs, i, want) ==
    IF i > Len(cs) THEN 0
    ELSE IF (cs[i] = " ") = want THEN i
    ELSE FindFrom(cs, i + 1, want)

\* The Segmenter's classification: a Command segment begins with the marker.
IsCommand(text) == text # <<>> /\ Head(text) = ":"

\* The Segmenter's CommandCall: the token up to the first space, and as the
\* argument everything from the first non-space character after that space.
CommandCallOf(text) ==
    LET sp == FindFrom(text, 1, TRUE)
        st == IF sp = 0 THEN 0 ELSE FindFrom(text, sp, FALSE)
    IN  [command |-> IF sp = 0 THEN text ELSE SubSeq(text, 1, sp - 1),
         args    |-> IF st = 0 THEN None ELSE Some(SubSeq(text, st, Len(text)))]

----------------------------------------------------------------------------
(* Outputs, errors and results *)

\* EvalOutputs: the rendered contents in merge order, and the optional timing.
EvalOutputsNew == [content |-> <<>>, timing |-> FALSE]

Merge(a, b) == [content |-> a.content \o b.content, timing |-> a.timing \/ b.timing]

text_output(text) ==
    [content |-> <<[mime |-> "text/plain", text |-> text \o "\n"]>>, timing |-> FALSE]

text_html(text, html) ==
    [content |-> <<[mime |-> "text/plain", text |-> text],
                   [mime |-> "text/html", text |-> html]>>,
     timing |-> FALSE]

Ok(out) == [tag |-> "Ok", out |-> out]
ErrCompilationErrors(errors) == [tag |-> "CompilationErrors", errors |-> errors]
ErrMessage(msg) == [tag |-> "Message", msg |-> msg]

\* Span::from_command: the columns are 1-based and the end column is the
\* column after the last character covered.
SpanFromCommand(start_column, end_column) ==
    [start_column |-> start_column, end_column |-> end_column]

\* The character positions (1-based) a span covers.
Covered(span) == span.start_column .. (span.end_column - 1)

\* CompilationError::from_segment_span: a diagnostic made by the dispatcher.
FromSegmentSpan(text, message, span) ==
    [message |-> message, span |-> span, json |-> "", explanation |-> None,
     segment |-> text]

\* Display of an Error: the messages of a compilation failure, one per line.
ErrorToString(e) ==
    IF e.tag = "CompilationErrors"
    THEN Concat([i \in 1..Len(e.errors) |-> e.errors[i].message \o "\n"])
    ELSE e.msg

\* The diagnostic sets the engine's compiler can report in this model.
EngineError(n, expl) ==
    [message |-> "E" \o n, span |-> SpanFromCommand(1, 2), json |-> "{" \o n \o "}",
     explanation |-> expl, segment |-> <<>>]

EngineErrorSets ==
    { <<EngineError("1", Some("x1"))>>,
      <<EngineError("2", Some("x2")), EngineError("3", None)>> }

BoolStr(b) == IF b THEN "true" ELSE "false"

----------------------------------------------------------------------------
(* The command registry *)

\* An AvailableCommand: its name, its description and, when it has one, the
\* callback that replaces the primary one while preparing for analysis
\* ("noop" is the one disable_in_analysis installs, "cleared" is :clear's).
create_commands == <<
    [name |-> <<":", "i", "n", "t", "e", "r", "n", "a", "l", "_", "d", "e", "b", "u", "g">>,
     short_description |-> "Toggle various internal debugging code",
     analysis_callback |-> None],
    [name |-> <<":", "l", "o", "a", "d", "_", "c", "o", "n", "f", "i", "g">>,
     short_description |-> "Reloads startup configuration files",
     analysis_callback |-> Some("noop")],
    [name |-> <<":", "v", "e", "r", "s", "i", "o", "n">>,
     short_description |-> "Print Evcxr version",
     analysis_callback |-> None],
    [name |-> <<":", "v", "a", "r", "s">>,
     short_description |-> "List bound variables and their types",
     analysis_callback |-> None],
    [name |-> <<":", "p", "r", "e", "s", "e", "r", "v", "e", "_", "v", "a", "r", "s", "_", "o", "n", "_", "p", "a", "n", "i", "c">>,
     short_description |-> "Try to keep vars on panic (0/1)",
     analysis_callback |-> None],
    [name |-> <<":", "c", "l", "e", "a", "r">>,
     short_description |-> "Clear all state, keeping compilation cache",
     analysis_callback |-> Some("cleared")],
    [name |-> <<":", "d", "e", "p">>,
     short_description |-> "Add dependency. e.g. :dep regex = \"1.0\"",
     analysis_callback |-> None],
    [name |-> <<":", "l", "a", "s", "t", "_", "c", "o", "m", "p", "i", "l", "e", "_", "d", "i", "r">>,
     short_description |-> "Print the directory in which we last compiled",
     analysis_callback |-> None],
    [name |-> <<":", "o", "p", "t">>,
     short_description |-> "Set optimization level (0/1/2)",
     analysis_callback |-> None],
    [name |-> <<":", "f", "m", "t">>,
     short_description |-> "Set output formatter (default: {:?})",
     analysis_callback |-> None],
    [name |-> <<":", "e", "f", "m", "t">>,
     short_description |-> "Set the formatter for errors returned by ?",
     analysis_callback |-> None],
    [name |-> <<":", "t", "o", "o", "l", "c", "h", "a", "i", "n">>,
     short_description |-> "Set which toolchain to use (e.g. nightly)",
     analysis_callback |-> None],
    [name |-> <<":", "o", "f", "f", "l", "i", "n", "e">>,
     short_description |-> "Set offline mode when invoking cargo",
     analysis_callback |-> None],
    [name |-> <<":", "q", "u", "i", "t">>,
     short_description |-> "Quit evaluation and exit",
     analysis_callback |-> Some("noop")],
    [name |-> <<":", "t", "i", "m", "i", "n", "g">>,
     short_description |-> "Toggle printing of how long evaluations take",
     analysis_callback |-> None],
    [name |-> <<":", "t", "i", "m", "e", "_", "p", "a", "s", "s", "e", "s">>,
     short_description |-> "Toggle printing of rustc pass times (requires nightly)",
     analysis_callback |-> None],
    [name |-> <<":", "s", "c", "c", "a", "c", "h", "e">>,
     short_description |-> "Set whether to use sccache (0/1).",
     analysis_callback |-> None],
    [name |-> <<":", "l", "i", "n", "k", "e", "r">>,
     short_description |-> "Set/print linker. Supported: system, lld",
     analysis_callback |-> None],
    [name |-> <<":", "e", "x", "p", "l", "a", "i", "n">>,
     short_description |-> "Print explanation of last error",
     analysis_callback |-> None],
    [name |-> <<":", "l", "a", "s", "t", "_", "e", "r", "r", "o", "r", "_", "j", "s", "o", "n">>,
     short_description |-> "Print the last compilation error as JSON (for debugging)",
     analysis_callback |-> None],
    [name |-> <<":", "h", "e", "l", "p">>,
     short_description |-> "Print command help",
     analysis_callback |-> None]
>>

\* The last index of create_commands that carries the name: collecting
\* (name, command) pairs into a HashMap keeps the last pair of a key.
LastIndexOf(name) ==
    CHOOSE i \in 1..Len(create_commands) :
        /\ create_commands[i].name = name
        /\ \A j \in (i + 1)..Len(create_commands) : create_commands[j].name # name

RegistryNames == { create_commands[i].name : i \in 1..Len(create_commands) }

commands_by_name == [name \in RegistryNames |-> create_commands[LastIndexOf(name)]]

----------------------------------------------------------------------------
(* ContextState and the evaluation engine *)

\* The ContextState of a newly constructed engine.
InitialState ==
    [opt_level |-> "2", debug_mode |-> FALSE, preserve_vars_on_panic |-> FALSE,
     deps |-> {}, output_format |-> "{:?}", error_format |-> "{:?}",
     toolchain |-> "", offline_mode |-> FALSE, time_passes |-> FALSE,
     sccache |-> FALSE, linker |-> "system", variables |-> {}]

\* EvalContext::state: a copy of the committed state.
EngineState(engine) == engine.committed

\* EvalContext::cleared_state: the committed configuration with no variables.
ClearedState(engine) == [engine.committed EXCEPT !.variables = {}]

\* EvalContext::clear: the committed state becomes the cleared state.
EngineClear(engine) == [engine EXCEPT !.committed = ClearedState(engine)]

\* Is the code segment a let statement?
IsLet(text) == Len(text) > 4 /\ SubSeq(text, 1, 4) = <<"l", "e", "t", " ">>

\* The variables a successful eval of the code buffer leaves bound: those of
\* the state it was given and the one of each let statement.
BindAll(variables, code) ==
    variables \cup { Str(SubSeq(code[i], 5, Len(code[i]))) : i \in { j \in 1..Len(code) : IsLet(code[j]) } }

\* EvalContext::eval_with_callbacks on success: the state it was given is
\* committed together with the new bindings.
EngineCommit(engine, code, state) ==
    [engine EXCEPT !.committed = [state EXCEPT !.variables = BindAll(state.variables, code)]]

\* ContextState::set_opt_level refuses the empty level.
SetOptLevel(state, level) ==
    IF level = "" THEN [ok |-> FALSE, msg |-> "Optimization level cannot be an empty string",
                        state |-> state]
    ELSE [ok |-> TRUE, msg |-> "", state |-> [state EXCEPT !.opt_level = level]]

\* ContextState::set_error_format accepts the formats it knows the trait of.
ErrorFormats == {"{}", "{:?}", "{:#?}"}

ErrorFormatTrait(format) == IF format = "{}" THEN "std::fmt::Display" ELSE "std::fmt::Debug"

SetErrorFormat(state, format) ==
    IF format \in ErrorFormats
    THEN [ok |-> TRUE, msg |-> "", state |-> [state EXCEPT !.error_format = format]]
    ELSE [ok |-> FALSE, msg |-> "Unsupported error format string", state |-> state]

\* ContextState::set_sccache fails when sccache is asked for and not installed.
SetSccache(state, enabled, installed) ==
    IF enabled /\ ~installed
    THEN [ok |-> FALSE, msg |-> "Couldn't find sccache", state |-> state]
    ELSE [ok |-> TRUE, msg |-> "", state |-> [state EXCEPT !.sccache = enabled]]

\* ContextState::add_dep: the requirement recorded for the name is replaced.
AddDep(state, name, requirement) ==
    [state EXCEPT !.deps = { d \in @ : d[1] # name } \cup {<<name, requirement>>}]

\* The longest prefix of cs made of characters other than '=' and ' '.
RECURSIVE NameLen(_, _)
NameLen(cs, i) ==
    IF i > Len(cs) \/ cs[i] \in {"=", " "} THEN i - 1 ELSE NameLen(cs, i + 1)

\* DEP_RE.captures: the groups 1 and 3 of ^([^= ]+) *(= *(.+))?$ on args.
DepCaptures(args) ==
    LET n == NameLen(args, 1)
        p == FindFrom(args, n + 1, FALSE)
        q == IF p = 0 THEN 0 ELSE FindFrom(args, p + 1, FALSE)
    IN  IF n = 0 THEN [matched |-> FALSE]
        ELSE IF p = 0
        THEN [matched |-> TRUE, name |-> SubSeq(args, 1, n), requirement |-> None]
        ELSE IF args[p] # "=" THEN [matched |-> FALSE]
        ELSE IF q # 0
        THEN [matched |-> TRUE, name |-> SubSeq(args, 1, n),
              requirement |-> Some(SubSeq(args, q, Len(args)))]
        ELSE IF Len(args) > p
        THEN [matched |-> TRUE, name |-> SubSeq(args, 1, n),
              requirement |-> Some(<<args[Len(args)]>>)]
        ELSE [matched |-> FALSE]

\* What a callback hands back: its result and the dispatcher and working
\* state as it leaves them.
Done(res, ctx, state) == [res |-> res, ctx |-> ctx, state |-> state]

process_dep_command(ctx, state, args) ==
    IF ~IsSome(args) THEN Done(ErrMessage(":dep requires arguments"), ctx, state)
    ELSE LET captures == DepCaptures(args[1])
         IN  IF captures.matched
             THEN Done(Ok(EvalOutputsNew), ctx,
                       AddDep(state, Str(captures.name),
                              IF IsSome(captures.requirement)
                              THEN Str(captures.requirement[1]) ELSE "\"*\""))
             ELSE Done(ErrMessage("Invalid :dep command. Expected: name = ... or just name"),
                       ctx, state)

----------------------------------------------------------------------------
(* The callbacks of the catalog *)

\* The characters of the command names, in ascending code-point order.
CharOrder == <<":", "_", "a", "b", "c", "d", "e", "f", "g", "h", "i", "j", "k", "l", "m",
               "n", "o", "p", "q", "r", "s", "t", "u", "v", "w", "x", "y", "z">>

Ord(c) == CHOOSE i \in 1..Len(CharOrder) : CharOrder[i] = c

\* str::cmp(a, b) is Less: at the first position where the names differ a
\* has the smaller character, or a ends there and b does not.
NameLess(a, b) ==
    \E i \in 1..Len(b) :
        /\ \A j \in 1..(i - 1) : j <= Len(a) /\ a[j] = b[j]
        /\ (i > Len(a) \/ (a[i] # b[i] /\ Ord(a[i]) < Ord(b[i])))

\* The place of commands[i] after the sort: after the entries with a smaller
\* name and after the earlier entries with the same name (sort_by is stable).
Rank(commands, i) ==
    1 + Cardinality({ j \in 1..Len(commands) :
                        \/ NameLess(commands[j].name, commands[i].name)
                        \/ (commands[j].name = commands[i].name /\ j < i) })

\* The commands, were they left in the order of the catalog.
Unsorted(commands) == commands

\* commands.sort_by(|a, b| a.name.cmp(b.name))
SortByName(commands) ==
    [k \in 1..Len(commands) |->
        commands[CHOOSE i \in 1..Len(commands) : Rank(commands, i) = k]]

\* format!("{:<17}", name): the name, padded on the right to 17 characters.
RECURSIVE PadRight(_, _)
PadRight(s, missing) == IF missing <= 0 THEN s ELSE PadRight(s \o " ", missing - 1)

HelpWidth == 17

\* The text of :help: one line per command.
HelpText(commands) ==
    Concat([i \in 1..Len(commands) |->
               PadRight(Str(commands[i].name), HelpWidth - Len(commands[i].name))
                   \o " " \o commands[i].short_description \o "\n"])

\* The HTML of :help: one table row per command.
HelpHtml(commands) ==
    "<table>\n"
        \o Concat([i \in 1..Len(commands) |->
               "<tr><td>" \o Str(commands[i].name) \o "</td><td>"
                   \o commands[i].short_description \o "</td></tr>\n"])
        \o "</table>\n"

\* The commands in the order :help lists them.
HelpCommands == SortByName(create_commands)

HelpOutputs == text_html(HelpText(HelpCommands), HelpHtml(HelpCommands))

\* The elements of a set in the order an iteration meets them.
RECURSIVE Iterate(_)
Iterate(set) ==
    IF set = {} THEN <<>>
    ELSE LET x == CHOOSE x \in set : TRUE IN <<x>> \o Iterate(set \ {x})

\* EvalContext::variables_and_types
variables_and_types(ctx) == Iterate(ctx.eval_context.committed.variables)

vars_as_text(ctx) ==
    LET variables == variables_and_types(ctx)
    IN  Concat([i \in 1..Len(variables) |-> variables[i] \o ": T\n"])

vars_as_html(ctx) ==
    LET variables == variables_and_types(ctx)
    IN  "<table><tr><th>Variable</th><th>Type</th></tr>"
        \o Concat([i \in 1..Len(variables) |->
               "<tr><td>" \o variables[i] \o "</td><td>T</td><tr>"])
        \o "</table>"

\* :explain, were it to pass over the errors that have no explanation.
ExplainWhatItCan(ctx, state) ==
    IF ctx.last_errors = <<>>
    THEN Done(ErrMessage("No last error to explain"), ctx, state)
    ELSE Done(Ok(text_output(Concat([i \in 1..Len(ctx.last_errors) |->
                                        IF IsSome(ctx.last_errors[i].explanation)
                                        THEN ctx.last_errors[i].explanation[1]
                                        ELSE ""]))),
              ctx, state)

\* :explain
Explain(ctx, state) ==
    IF ctx.last_errors = <<>>
    THEN Done(ErrMessage("No last error to explain"), ctx, state)
    ELSE IF \E i \in 1..Len(ctx.last_errors) : ~IsSome(ctx.last_errors[i].explanation)
    THEN Done(ErrMessage("Sorry, last error has no explanation"), ctx, state)
    ELSE Done(Ok(text_output(Concat([i \in 1..Len(ctx.last_errors) |->
                                        ctx.last_errors[i].explanation[1]]))),
              ctx, state)

\* :last_error_json, were it to print the payloads and succeed.
LastErrorJsonPrints(ctx, state) ==
    Done(Ok(text_output(Concat([i \in 1..Len(ctx.last_errors) |->
                                   ctx.last_errors[i].json \o "\n"]))),
         ctx, state)

\* :last_error_json
LastErrorJson(ctx, state) ==
    Done(ErrMessage(Concat([i \in 1..Len(ctx.last_errors) |->
                               ctx.last_errors[i].json \o "\n"])),
         ctx, state)

\* :timing
Timing(ctx, state) ==
    LET toggled == [ctx EXCEPT !.print_timings = ~ctx.print_timings]
    IN  Done(Ok(text_output("Timing: " \o BoolStr(toggled.print_timings))), toggled, state)

\* :opt, were it to toggle to "0" from every level but "0".
OptFromZero(ctx, state, args) ==
    LET new_level == IF IsSome(args) THEN Str(args[1])
                     ELSE IF state.opt_level = "0" THEN "2"
                     ELSE "0"
        set == SetOptLevel(state, new_level)
    IN  IF set.ok
        THEN Done(Ok(text_output("Optimization: " \o set.state.opt_level)), ctx, set.state)
        ELSE Done(ErrMessage(set.msg), ctx, state)

\* :opt, were it to set the level on the engine as well.
OptOnEngine(ctx, state, args) ==
    LET new_level == IF IsSome(args) THEN Str(args[1])
                     ELSE IF state.opt_level = "2" THEN "0"
                     ELSE "2"
        set == SetOptLevel(state, new_level)
    IN  IF set.ok
        THEN Done(Ok(text_output("Optimization: " \o set.state.opt_level)),
                  [ctx EXCEPT !.eval_context.committed.opt_level = new_level], set.state)
        ELSE Done(ErrMessage(set.msg), ctx, state)

\* :opt
Opt(ctx, state, args) ==
    LET new_level == IF IsSome(args) THEN Str(args[1])
                     ELSE IF state.opt_level = "2" THEN "0"
                     ELSE "2"
        set == SetOptLevel(state, new_level)
    IN  IF set.ok
        THEN Done(Ok(text_output("Optimization: " \o set.state.opt_level)), ctx, set.state)
        ELSE Done(ErrMessage(set.msg), ctx, state)

\* :clear, primary callback; clear_ok says whether EvalContext::clear succeeds.
Clear(ctx, state, clear_ok) ==
    IF clear_ok
    THEN LET cleared == [ctx EXCEPT !.eval_context = EngineClear(ctx.eval_context)]
         IN  Done(Ok(EvalOutputsNew), cleared, EngineState(cleared.eval_context))
    ELSE Done(ErrMessage("Failed to restart the subprocess"), ctx, state)

\* The primary callback of every command but :load_config and :quit, which
\* start interactions and end the process and are steps of the dispatcher.
\* ext holds what the environment decides: whether EvalContext::clear
\* succeeds and whether sccache is installed.
Callback(name, ctx, state, args, ext) ==
    CASE name = ":internal_debug" ->
            LET s == [state EXCEPT !.debug_mode = ~state.debug_mode]
            IN  Done(Ok(text_output("Internals debugging: " \o BoolStr(s.debug_mode))), ctx, s)
      [] name = ":version" -> Done(Ok(text_output("0.0.0")), ctx, state)
      [] name = ":vars" -> Done(Ok(text_html(vars_as_text(ctx), vars_as_html(ctx))), ctx, state)
      [] name = ":preserve_vars_on_panic" ->
            LET s == [state EXCEPT !.preserve_vars_on_panic = (args = Some(<<"1">>))]
            IN  Done(Ok(text_output("Preserve vars on panic: "
                                    \o BoolStr(s.preserve_vars_on_panic))), ctx, s)
      [] name = ":clear" -> Clear(ctx, state, ext.clear_ok)
      [] name = ":dep" -> process_dep_command(ctx, state, args)
      [] name = ":last_compile_dir" -> Done(Ok(text_output("\"/tmp/evcxr\"")), ctx, state)
      [] name = ":opt" -> Opt(ctx, state, args)
      [] name = ":fmt" ->
            LET s == [state EXCEPT !.output_format =
                          IF IsSome(args) THEN Str(args[1]) ELSE "{:?}"]
            IN  Done(Ok(text_output("Output format: " \o s.output_format)), ctx, s)
      [] name = ":efmt" ->
            LET set == IF IsSome(args) THEN SetErrorFormat(state, Str(args[1]))
                       ELSE [ok |-> TRUE, msg |-> "", state |-> state]
            IN  IF set.ok
                THEN Done(Ok(text_output("Error format: " \o set.state.error_format
                                \o " (errors must implement "
                                \o ErrorFormatTrait(set.state.error_format) \o ")")),
                          ctx, set.state)
                ELSE Done(ErrMessage(set.msg), ctx, state)
      [] name = ":toolchain" ->
            LET s == IF IsSome(args) THEN [state EXCEPT !.toolchain = Str(args[1])] ELSE state
            IN  Done(Ok(text_output("Toolchain: " \o s.toolchain)), ctx, s)
      [] name = ":offline" ->
            LET s == [state EXCEPT !.offline_mode = (args = Some(<<"1">>))]
            IN  Done(Ok(text_output("Offline mode: " \o BoolStr(s.offline_mode))), ctx, s)
      [] name = ":timing" -> Timing(ctx, state)
      [] name = ":time_passes" ->
            LET s == [state EXCEPT !.time_passes = ~state.time_passes]
            IN  Done(Ok(text_output("Time passes: " \o BoolStr(s.time_passes))), ctx, s)
      [] name = ":sccache" ->
            LET set == SetSccache(state, args # Some(<<"0">>), ext.sccache_installed)
            IN  IF set.ok
                THEN Done(Ok(text_output("sccache: " \o BoolStr(set.state.sccache))),
                          ctx, set.state)
                ELSE Done(ErrMessage(set.msg), ctx, state)
      [] name = ":linker" ->
            LET s == IF IsSome(args) THEN [state EXCEPT !.linker = Str(args[1])] ELSE state
            IN  Done(Ok(text_output("linker: " \o s.linker)), ctx, s)
      [] name = ":explain" -> Explain(ctx, state)
      [] name = ":last_error_json" -> LastErrorJson(ctx, state)
      [] name = ":help" -> Done(Ok(HelpOutputs), ctx, state)

\* The analysis callbacks, were that of :clear to clear the engine too.
AnalysisCallbackClears(id, ctx, state, args) ==
    IF id = "cleared"
    THEN Done(Ok(EvalOutputsNew), [ctx EXCEPT !.eval_context = EngineClear(ctx.eval_context)],
              ClearedState(ctx.eval_context))
    ELSE Done(Ok(EvalOutputsNew), ctx, state)

\* The analysis callbacks, were every one of them that of :clear.
AnalysisCallbackAllCleared(id, ctx, state, args) ==
    Done(Ok(EvalOutputsNew), ctx, ClearedState(ctx.eval_context))

\* The callbacks installed for analysis: disable_in_analysis' no-op, and
\* the one of :clear.
AnalysisCallback(id, ctx, state, args) ==
    IF id = "cleared"
    THEN Done(Ok(EvalOutputsNew), ctx, ClearedState(ctx.eval_context))
    ELSE Done(Ok(EvalOutputsNew), ctx, state)

----------------------------------------------------------------------------
(* process_command *)

\* The column at which the span of a failed command starts: the first
\* character that is not a space and comes after a space, counted from 1,
\* or 1 when there is none.
StartColumn(text) ==
    LET sp == FindFrom(text, 1, TRUE)
        st == IF sp = 0 THEN 0 ELSE FindFrom(text, sp, FALSE)
    IN  IF st = 0 THEN 1 ELSE st

EndColumn(text) == Len(text)

\* The map_err of process_command: the callback's error becomes one
\* CompilationError on the segment.
WrapCallbackError(text, error) ==
    FromSegmentSpan(text, ErrorToString(error),
                    SpanFromCommand(StartColumn(text), EndColumn(text)))

\* The end column of the span, were it the column of the last character.
UnrecognisedEndAtLast(command) == Len(command)

\* The end column of the span of an unrecognised command.
UnrecognisedEnd(command) == Len(command) + 1

Unrecognised(text, command) ==
    FromSegmentSpan(text, "Unrecognised command " \o Str(command),
                    SpanFromCommand(1, UnrecognisedEnd(command)))

Failed(error) == [tag |-> "Err", error |-> error]

\* Does process_command run the analysis callback of the command?
UsesAnalysisCallback(command, analysis_mode) ==
    IsSome(command.analysis_callback) /\ analysis_mode

\* The callback process_command selects for a command of the registry, run:
\* defined for every callback that is a function of its arguments, which is
\* all of them but the primary callbacks of :load_config and :quit.
RunCallback(command, ctx, state, args, analysis_mode, ext) ==
    IF UsesAnalysisCallback(command, analysis_mode)
    THEN AnalysisCallback(command.analysis_callback[1], ctx, state, args)
    ELSE Callback(Str(command.name), ctx, state, args, ext)

\* result.map_err(...) on what the callback handed back.
MapErr(text, r) ==
    IF r.res.tag = "Ok" THEN r
    ELSE Done(Failed(WrapCallbackError(text, r.res)), r.ctx, r.state)

\* process_command once the Segmenter's CommandCall is at hand.
ProcessCall(call, ctx, text, state, analysis_mode, ext) ==
    IF call.command \in RegistryNames
    THEN MapErr(text, RunCallback(commands_by_name[call.command], ctx, state, call.args,
                                  analysis_mode, ext))
    ELSE Done(Failed(Unrecognised(text, call.command)), ctx, state)

process_command(ctx, text, state, analysis_mode, ext) ==
    ProcessCall(CommandCallOf(text), ctx, text, state, analysis_mode, ext)

\* The commands whose primary callback is a step of the dispatcher.
IsRealOnly(text, name) ==
    /\ IsCommand(text)
    /\ Str(CommandCallOf(text).command) = name

Ctx == [print_timings |-> print_timings, last_errors |-> last_errors,
        eval_context |-> eval_context]

\* What the environment can decide for a callback.
Exts == [clear_ok : BOOLEAN, sccache_installed : BOOLEAN]

\* The environment's decisions that the command of the segment depends on.
ExtsFor(text) ==
    LET name == Str(CommandCallOf(text).command)
    IN  { e \in Exts : /\ (name # ":clear" => e.clear_ok)
                       /\ (name # ":sccache" => e.sccache_installed) }

----------------------------------------------------------------------------
(* The inputs of the model *)

tLet == <<"l", "e", "t", " ", "x">>
tExpr == <<"x">>
tTiming == <<":", "t", "i", "m", "i", "n", "g">>
tOpt == <<":", "o", "p", "t">>
tDep == <<":", "d", "e", "p">>
tNoSuch == <<":", "z", "z">>
tQuit == <<":", "q", "u", "i", "t">>
tLoadConfig == <<":", "l", "o", "a", "d", "_", "c", "o", "n", "f", "i", "g">>
tClear == <<":", "c", "l", "e", "a", "r">>
tExplain == <<":", "e", "x", "p", "l", "a", "i", "n">>
tHelp == <<":", "h", "e", "l", "p">>
tLastErrorJson == <<":", "l", "a", "s", "t", "_", "e", "r", "r", "o", "r", "_", "j", "s", "o", "n">>

\* The segments a front-end's input is made of.
SegmentTexts ==
    {tLet, tExpr, tTiming, tOpt, tDep, tNoSuch, tQuit, tLoadConfig, tClear, tExplain,
     tLastErrorJson}

\* The inputs of at most MaxSegs segments, as the Segmenter returns them:
\* the segments in source order.
Inputs == UNION { [1..n -> SegmentTexts] : n \in 0..MaxSegs }

\* The configuration directories load_config can find: init.evcxr as its
\* lines, each segmented, and prelude.rs segmented; None for a file that
\* does not exist.
ConfigDirs ==
    { [init |-> None, prelude |-> None],
      [init |-> Some(<< <<tOpt>>, <<tExpr>> >>), prelude |-> Some(<<tLet>>)] }

----------------------------------------------------------------------------
(* One real-mode interaction: execute_with_callbacks *)

\* ContextState::clear_non_debug_relevant_fields: it blanks fields that this
\* model of ContextState does not carry.
ClearNonDebugRelevantFields(state) == state

\* CrashGuard::new: armed, holding what its callback prints.
CrashGuardNew(to_run, state) == [armed |-> TRUE, code |-> to_run, state |-> state]

\* CrashGuard::disarm
Disarm(guard) == [guard EXCEPT !.armed = FALSE]

\* Drop for CrashGuard: the callback runs if the guard is still armed.
Dropped(guard, printed) ==
    IF guard.armed THEN Append(printed, [code |-> guard.code, state |-> guard.state])
    ELSE printed

\* The frame, were an interaction that load_config runs to start from the
\* working copy of the interaction that issued :load_config.
NewFrameFromWorkingCopy(to_run, ctx) ==
    [to_run |-> to_run,
     idx |-> 1,
     state |-> IF stack # <<>> THEN stack[Len(stack)].state
               ELSE EngineState(ctx.eval_context),
     non_command_code |-> <<>>,
     eval_outputs |-> EvalOutputsNew,
     guard |-> CrashGuardNew(to_run,
                   ClearNonDebugRelevantFields(EngineState(ctx.eval_context))),
     pc |-> "segments",
     result |-> None,
     log |-> <<>>,
     load |-> None,
     before |-> ctx]

\* The frame of a call of execute_with_callbacks that has reached the loop
\* over the segments: lines 93-95 and 120-124.
NewFrame(to_run, ctx) ==
    [to_run |-> to_run,
     idx |-> 1,
     state |-> EngineState(ctx.eval_context),
     non_command_code |-> <<>>,
     eval_outputs |-> EvalOutputsNew,
     guard |-> CrashGuardNew(to_run,
                   ClearNonDebugRelevantFields(EngineState(ctx.eval_context))),
     pc |-> "segments",
     result |-> None,
     log |-> <<>>,
     load |-> None,
     before |-> ctx]

Top == stack[Len(stack)]

Running == process = "running"

\* No call is in progress and the front-end holds no result.
Idle == Running /\ stack = <<>> /\ returned = None

InSegments == Running /\ stack # <<>> /\ Top.pc = "segments"

AtSegment == InSegments /\ Top.idx <= Len(Top.to_run)

\* The record the model keeps of one call of a callback: the segment, the
\* working state before and after, the result, and whether the dispatcher
\* or the engine changed.
CommandEvent(index, before, r, touched) ==
    [kind |-> "command", index |-> index, before |-> before, after |-> r.state,
     ok |-> r.res.tag = "Ok", res |-> r.res, touched |-> touched]

EvalEvent(frame) ==
    [kind |-> "eval", code |-> frame.non_command_code, state |-> frame.state]

\* execute_command, were it to retain the error of the directive as well.
InteractionErrorRetained(r) ==
    IF r.res.tag = "Ok" THEN r
    ELSE Done(ErrCompilationErrors(<<r.res.error>>),
              [r.ctx EXCEPT !.last_errors = <<r.res.error>>], r.state)

\* execute_command: the error of process_command becomes the error of the
\* interaction.
InteractionError(r) ==
    IF r.res.tag = "Ok" THEN r
    ELSE Done(ErrCompilationErrors(<<r.res.error>>), r.ctx, r.state)

execute_command(ctx, text, state, ext) ==
    InteractionError(process_command(ctx, text, state, FALSE, ext))

\* An AfterCommand that merges the outputs and forgets the state the
\* callback left.
AfterCommandStateLost(frame, r, touched) ==
    LET event == CommandEvent(frame.idx, frame.state, r, touched)
    IN  IF r.res.tag = "Ok"
        THEN [frame EXCEPT !.eval_outputs = Merge(@, r.res.out),
                           !.idx = @ + 1,
                           !.pc = "segments",
                           !.load = None,
                           !.log = Append(@, event)]
        ELSE [frame EXCEPT !.state = r.state,
                           !.pc = "return",
                           !.load = None,
                           !.result = Some(r.res),
                           !.log = Append(@, event)]

\* An AfterCommand that goes on to the next segment after an error.
AfterCommandGoesOn(frame, r, touched) ==
    LET event == CommandEvent(frame.idx, frame.state, r, touched)
    IN  [frame EXCEPT !.eval_outputs = IF r.res.tag = "Ok" THEN Merge(@, r.res.out) ELSE @,
                      !.state = r.state,
                      !.idx = @ + 1,
                      !.pc = "segments",
                      !.load = None,
                      !.log = Append(@, event)]

\* The body of the loop for a Command segment, once execute_command has
\* returned r: merge the outputs and go on, or return the error.
AfterCommand(frame, r, touched) ==
    LET event == CommandEvent(frame.idx, frame.state, r, touched)
    IN  IF r.res.tag = "Ok"
        THEN [frame EXCEPT !.eval_outputs = Merge(@, r.res.out),
                           !.state = r.state,
                           !.idx = @ + 1,
                           !.pc = "segments",
                           !.load = None,
                           !.log = Append(@, event)]
        ELSE [frame EXCEPT !.state = r.state,
                           !.pc = "return",
                           !.load = None,
                           !.result = Some(r.res),
                           !.log = Append(@, event)]

\* The front-end calls execute (or execute_with_callbacks).
Execute ==
    /\ Idle
    /\ \E to_run \in Inputs : stack' = <<NewFrame(to_run, Ctx)>>
    /\ UNCHANGED <<print_timings, last_errors, eval_context, returned, process,
                   diagnostics>>

\* The buffer, were it to keep only the segment added last.
with_segment_alone(code, segment) == <<segment>>

\* A with_segment that puts the segment in front of the block.
with_segment_front(code, segment) == <<segment>> \o code

\* CodeBlock::with_segment: the segment is added at the end of the block.
with_segment(code, segment) == Append(code, segment)

\* A Code segment joins the code buffer.
StepCode ==
    /\ AtSegment
    /\ ~IsCommand(Top.to_run[Top.idx])
    /\ stack' = [stack EXCEPT ![Len(stack)] =
                    [Top EXCEPT !.non_command_code = with_segment(@, Top.to_run[Top.idx]),
                                !.idx = @ + 1]]
    /\ UNCHANGED <<print_timings, last_errors, eval_context, returned, process,
                   diagnostics>>

\* execute_command has returned r to the loop: the dispatcher and the
\* engine are as the callback left them.
CommandReturns(r) ==
    /\ stack' = [stack EXCEPT ![Len(stack)] = AfterCommand(Top, r, r.ctx # Ctx)]
    /\ print_timings' = r.ctx.print_timings
    /\ last_errors' = r.ctx.last_errors
    /\ eval_context' = r.ctx.eval_context

\* A Command segment runs through execute_command.
StepCommand ==
    /\ AtSegment
    /\ IsCommand(Top.to_run[Top.idx])
    /\ ~IsRealOnly(Top.to_run[Top.idx], ":load_config")
    /\ ~IsRealOnly(Top.to_run[Top.idx], ":quit")
    /\ \E ext \in ExtsFor(Top.to_run[Top.idx]) :
          CommandReturns(execute_command(Ctx, Top.to_run[Top.idx], Top.state, ext))
    /\ UNCHANGED <<returned, process, diagnostics>>

\* :quit in real mode: std::process::exit(0); nothing unwinds.
StepQuit ==
    /\ AtSegment
    /\ IsRealOnly(Top.to_run[Top.idx], ":quit")
    /\ process' = "exited"
    /\ UNCHANGED <<print_timings, last_errors, eval_context, stack, returned,
                   diagnostics>>

----------------------------------------------------------------------------
(* :load_config in real mode *)

\* The interactions of load_config, were the prelude run first.
LoadItemsPreludeFirst(config) ==
    (IF IsSome(config.prelude) THEN <<config.prelude[1]>> ELSE <<>>)
        \o (IF IsSome(config.init) THEN config.init[1] ELSE <<>>)

\* The interactions load_config runs, in order: the lines of init.evcxr and
\* then the prelude.
LoadItems(config) ==
    (IF IsSome(config.init) THEN config.init[1] ELSE <<>>)
        \o (IF IsSome(config.prelude) THEN <<config.prelude[1]>> ELSE <<>>)

\* The position in LoadItems of the prelude.
PreludeAt(config) == IF IsSome(config.init) THEN Len(config.init[1]) + 1 ELSE 1

\* Is read_to_string about to be called with next interactions still to run?
ReadsFileAt(config, next) ==
    \/ IsSome(config.init) /\ next = 1
    \/ IsSome(config.prelude) /\ next = PreludeAt(config)

InLoadConfig == Running /\ stack # <<>> /\ Top.pc = "load_config"

\* The callback of :load_config, were it to leave the working state alone.
AfterLoadConfigKeepsState(frame, result, ctx) ==
    AfterCommand(frame,
        IF result.tag = "Ok" THEN Done(result, ctx, frame.state)
        ELSE Done(ErrCompilationErrors(<<WrapCallbackError(frame.to_run[frame.idx], result)>>),
                  ctx, frame.state),
        ctx # frame.load[1].ctx0)

\* The callback of :load_config once load_config has returned result: the
\* working state is fetched again from the engine, and process_command and
\* execute_command wrap an error.
AfterLoadConfig(frame, result, ctx) ==
    LET text == frame.to_run[frame.idx]
        state == EngineState(ctx.eval_context)
    IN  AfterCommand(frame,
            IF result.tag = "Ok" THEN Done(result, ctx, state)
            ELSE Done(ErrCompilationErrors(<<WrapCallbackError(text, result)>>), ctx, state),
            ctx # frame.load[1].ctx0)

\* The record the model keeps of a call of load_config: the directory found.
LoadEvent(config) == [kind |-> "load_config", config |-> config]

\* The record the model keeps of an interaction load_config has run: its
\* input and its result.
NestedEvent(frame) ==
    [kind |-> "nested", to_run |-> frame.to_run, result |-> frame.result[1]]

\* :load_config is reached: load_config starts with empty outputs and finds
\* the configuration directory as it is at that moment.
StepLoadConfig ==
    /\ AtSegment
    /\ IsRealOnly(Top.to_run[Top.idx], ":load_config")
    /\ \E config \in ConfigDirs :
          stack' = [stack EXCEPT ![Len(stack)] =
                       [Top EXCEPT !.pc = "load_config",
                                   !.load = Some([next |-> 1, outputs |-> EvalOutputsNew,
                                                  read |-> FALSE, config |-> config,
                                                  ctx0 |-> Ctx]),
                                   !.log = Append(@, LoadEvent(config))]]
    /\ UNCHANGED <<print_timings, last_errors, eval_context, returned, process,
                   diagnostics>>

\* read_to_string of init.evcxr or prelude.rs succeeds or fails.
LoadConfigRead ==
    /\ InLoadConfig
    /\ ReadsFileAt(Top.load[1].config, Top.load[1].next) /\ ~Top.load[1].read
    /\ \E ok \in BOOLEAN :
          stack' = [stack EXCEPT ![Len(stack)] =
                       IF ok THEN [Top EXCEPT !.load = Some([Top.load[1] EXCEPT !.read = TRUE])]
                       ELSE AfterLoadConfig(Top, ErrMessage("read_to_string failed"), Ctx)]
    /\ UNCHANGED <<print_timings, last_errors, eval_context, returned, process,
                   diagnostics>>

\* load_config runs its next interaction: self.execute(line) or
\* self.execute(&prelude).
LoadConfigExecute ==
    /\ InLoadConfig
    /\ Top.load[1].next <= Len(LoadItems(Top.load[1].config))
    /\ ReadsFileAt(Top.load[1].config, Top.load[1].next) => Top.load[1].read
    /\ stack' = Append(stack, NewFrame(LoadItems(Top.load[1].config)[Top.load[1].next], Ctx))
    /\ UNCHANGED <<print_timings, last_errors, eval_context, returned, process,
                   diagnostics>>

\* load_config has nothing left to run and returns its outputs.
LoadConfigDone ==
    /\ InLoadConfig
    /\ Top.load[1].next > Len(LoadItems(Top.load[1].config))
    /\ stack' = [stack EXCEPT ![Len(stack)] =
                    AfterLoadConfig(Top, Ok(Top.load[1].outputs), Ctx)]
    /\ UNCHANGED <<print_timings, last_errors, eval_context, returned, process,
                   diagnostics>>

----------------------------------------------------------------------------
(* The engine call and the return *)

\* What the engine renders for a code buffer it ran.
EngineOutputs(code) ==
    IF code = <<>> THEN EvalOutputsNew
    ELSE text_output(Concat([i \in 1..Len(code) |-> Str(code[i])]))

\* The outcomes of eval_with_callbacks: success, a set of compilation
\* errors, another error, or a panic.
EvalOutcomes ==
    { [kind |-> k, errors |-> <<>>] : k \in {"ok", "other", "panic"} }
        \cup { [kind |-> "errors", errors |-> e] : e \in EngineErrorSets }

\* The match on the result of eval_with_callbacks, for the results that are
\* values: what the interaction returns.
EvalResult(frame, outcome, timings) ==
    IF outcome.kind = "ok"
    THEN Ok([Merge(frame.eval_outputs, EngineOutputs(frame.non_command_code))
                EXCEPT !.timing = timings])
    ELSE IF outcome.kind = "other" THEN ErrMessage("engine error")
    ELSE ErrCompilationErrors(outcome.errors)

\* The retained errors, were a successful eval to clear them.
RetainedUntilSuccess(retained, outcome) ==
    IF outcome.kind = "errors" THEN outcome.errors
    ELSE IF outcome.kind = "ok" THEN <<>>
    ELSE retained

\* The retained errors, were a failed eval to add its errors to them.
RetainedAppended(retained, outcome) ==
    IF outcome.kind = "errors" THEN retained \o outcome.errors ELSE retained

\* The retained errors after the match on the result of eval_with_callbacks.
RetainedAfterEval(retained, outcome) ==
    IF outcome.kind = "errors" THEN outcome.errors ELSE retained

\* The guards that unwinding drops, innermost first, print if armed.
RECURSIVE Unwind(_, _)
Unwind(frames, printed) ==
    IF frames = <<>> THEN printed
    ELSE Unwind(SubSeq(frames, 1, Len(frames) - 1),
                Dropped(frames[Len(frames)].guard, printed))

\* All segments are done: the code buffer and the working state go to the
\* engine, lines 137-154.
Eval ==
    /\ InSegments
    /\ Top.idx > Len(Top.to_run)
    /\ \E outcome \in EvalOutcomes :
          LET logged == [Top EXCEPT !.log = Append(@, EvalEvent(Top))]
          IN  IF outcome.kind = "panic"
              THEN /\ process' = "panicked"
                   /\ diagnostics' = Unwind(stack, diagnostics)
                   /\ stack' = [stack EXCEPT ![Len(stack)] = logged]
                   /\ UNCHANGED <<last_errors, eval_context>>
              ELSE /\ stack' = [stack EXCEPT ![Len(stack)] =
                                  [logged EXCEPT !.pc = "return",
                                                 !.result = Some(EvalResult(Top, outcome,
                                                                            print_timings))]]
                   /\ eval_context' = IF outcome.kind = "ok"
                                      THEN EngineCommit(eval_context, Top.non_command_code,
                                                        Top.state)
                                      ELSE eval_context
                   /\ last_errors' = RetainedAfterEval(last_errors, outcome)
                   /\ UNCHANGED <<process, diagnostics>>
    /\ UNCHANGED <<print_timings, returned>>

\* The guard, were it left armed on return.
GuardStillArmed(guard) == guard

\* The guard as execute_with_callbacks leaves it before it returns the
\* result of execute_with_callbacks_internal: line 110.
GuardAtReturn(guard) == Disarm(guard)

\* What load_config does with the result of an interaction it ran: merge
\* the outputs and go on, or return the error (the ? operator).
AfterNested(parent, result, ctx) ==
    IF result.tag = "Ok"
    THEN [parent EXCEPT !.load = Some([parent.load[1] EXCEPT
                                          !.next = @ + 1,
                                          !.outputs = Merge(@, result.out),
                                          !.read = FALSE])]
    ELSE AfterLoadConfig(parent, result, ctx)

\* execute_with_callbacks returns: lines 110-111. The caller is load_config
\* or the front-end.
Return ==
    /\ Running /\ stack # <<>> /\ Top.pc = "return"
    /\ diagnostics' = Dropped(GuardAtReturn(Top.guard), diagnostics)
    /\ IF Len(stack) > 1
       THEN /\ stack' = [SubSeq(stack, 1, Len(stack) - 1) EXCEPT ![Len(stack) - 1] =
                            AfterNested([stack[Len(stack) - 1] EXCEPT
                                            !.log = Append(@, NestedEvent(Top))],
                                        Top.result[1], Ctx)]
            /\ UNCHANGED returned
       ELSE /\ stack' = <<>>
            /\ returned' = Some([op |-> "execute", to_run |-> Top.to_run,
                                 result |-> Top.result[1], log |-> Top.log,
                                 before |-> Top.before])
    /\ UNCHANGED <<print_timings, last_errors, eval_context, process>>

----------------------------------------------------------------------------
(* The analysis path: check and completions *)

\* The body of the loop, were the first error to end the attempts.
AnalysedCommandUntilError(acc, i, r) ==
    IF acc.errors # <<>> THEN acc
    ELSE [acc EXCEPT !.ctx = r.ctx,
                     !.state = r.state,
                     !.errors = IF r.res.tag = "Ok" THEN @ ELSE Append(@, r.res.error),
                     !.log = Append(@, CommandEvent(i, acc.state, r, r.ctx # acc.ctx))]

\* The body of the loop for a Command segment, once process_command has
\* returned r: an error is pushed on the errors.
AnalysedCommand(acc, i, r) ==
    [acc EXCEPT !.ctx = r.ctx,
                !.state = r.state,
                !.errors = IF r.res.tag = "Ok" THEN @ ELSE Append(@, r.res.error),
                !.log = Append(@, CommandEvent(i, acc.state, r, r.ctx # acc.ctx))]

\* The loop of prepare_for_analysis from segment i on; acc holds the
\* dispatcher, the working state, the code buffer, the errors and a log of
\* the commands attempted.
RECURSIVE AnalyseFrom(_, _, _, _)
AnalyseFrom(segments, i, acc, ext) ==
    IF i > Len(segments) THEN acc
    ELSE IF IsCommand(segments[i])
    THEN AnalyseFrom(segments, i + 1,
             AnalysedCommand(acc, i,
                 process_command(acc.ctx, segments[i], acc.state, TRUE, ext)),
             ext)
    ELSE AnalyseFrom(segments, i + 1,
             [acc EXCEPT !.non_command_code = with_segment(@, segments[i])], ext)

\* prepare_for_analysis up to the call of write_cargo_toml.
prepare_for_analysis(ctx, user_code, ext) ==
    AnalyseFrom(user_code, 1,
        [ctx |-> ctx, state |-> EngineState(ctx.eval_context), non_command_code |-> <<>>,
         errors |-> <<>>, log |-> <<>>],
        ext)

\* What the engine's check can report: no diagnostic, or one of the sets.
CheckOutcomes == {<<>>} \cup EngineErrorSets

\* The environment's decisions an analysed input depends on.
ExtsForInput(src) ==
    { e \in Exts : /\ e.clear_ok
                   /\ ((\A i \in 1..Len(src) : ~IsRealOnly(src[i], ":sccache"))
                          => e.sccache_installed) }

\* What check returns once prepare_for_analysis has returned p, the
\* manifest was written (or not) and, if called, the engine reported found.
CheckResult(p, toml_ok, found) ==
    IF ~toml_ok THEN ErrMessage("write_cargo_toml failed")
    ELSE IF p.errors # <<>> THEN Ok(p.errors)
    ELSE Ok(found)

\* The calls of the engine's check that check makes.
CheckCalls(p, toml_ok) ==
    IF toml_ok /\ p.errors = <<>>
    THEN <<[code |-> p.non_command_code, state |-> p.state]>>
    ELSE <<>>

\* prepare_for_analysis has handed p to its caller: the dispatcher and the
\* engine are as the callbacks left them.
Prepared(p) ==
    /\ print_timings' = p.ctx.print_timings
    /\ last_errors' = p.ctx.last_errors
    /\ eval_context' = p.ctx.eval_context

\* check returns, the loop of prepare_for_analysis having ended with p.
CheckReturns(src, p, toml_ok, found) ==
    /\ (~toml_ok \/ p.errors # <<>>) => found = <<>>
    /\ Prepared(p)
    /\ returned' = Some([op |-> "check", to_run |-> src,
                         result |-> CheckResult(p, toml_ok, found),
                         log |-> p.log,
                         engine_calls |-> CheckCalls(p, toml_ok),
                         toml_ok |-> toml_ok,
                         before |-> Ctx])

\* The front-end calls check.
Check ==
    /\ Idle
    /\ \E src \in Inputs :
       \E ext \in ExtsForInput(src), toml_ok \in BOOLEAN, found \in CheckOutcomes :
          CheckReturns(src, prepare_for_analysis(Ctx, src, ext), toml_ok, found)
    /\ UNCHANGED <<stack, process, diagnostics>>

\* Is prefix a prefix of name?
StartsWith(name, prefix) ==
    Len(prefix) <= Len(name) /\ SubSeq(name, 1, Len(prefix)) = prefix

\* command_completions: the names of the registry that start with the
\* first offset characters of the segment.
command_completions(text, offset) ==
    { name \in RegistryNames : StartsWith(name, SubSeq(text, 1, offset)) }

\* The Segmenter's command_containing_user_offset, for a position given as
\* a segment and an offset into it: the position lies in a command token.
InCommandToken(src, segment, offset) ==
    /\ IsCommand(src[segment])
    /\ offset <= Len(CommandCallOf(src[segment]).command)

\* completions returns what the engine found (nothing, in this model), the
\* loop of prepare_for_analysis having ended with p.
CompletionsReturns(src, p, toml_ok) ==
    /\ Prepared(p)
    /\ returned' = Some([op |-> "completions", to_run |-> src,
                         result |-> IF toml_ok THEN Ok({})
                                    ELSE ErrMessage("write_cargo_toml failed"),
                         log |-> p.log, before |-> Ctx])

\* The front-end calls completions at a position of the input.
Completions ==
    /\ Idle
    /\ \E src \in Inputs : \E segment \in 1..Len(src) : \E offset \in {0, Len(src[segment])} :
       IF InCommandToken(src, segment, offset)
       THEN /\ returned' = Some([op |-> "completions", to_run |-> src,
                                 result |-> Ok(command_completions(src[segment], offset)),
                                 log |-> <<>>, before |-> Ctx])
            /\ UNCHANGED <<print_timings, last_errors, eval_context>>
       ELSE \E ext \in ExtsForInput(src), toml_ok \in BOOLEAN :
               CompletionsReturns(src, prepare_for_analysis(Ctx, src, ext), toml_ok)
    /\ UNCHANGED <<stack, process, diagnostics>>

\* The front-end takes the result of the call it made.
Acknowledge ==
    /\ Running /\ returned # None
    /\ returned' = None
    /\ UNCHANGED <<print_timings, last_errors, eval_context, stack, process,
                   diagnostics>>

----------------------------------------------------------------------------
(* The specification *)

\* CommandContext::with_eval_context on a new engine.
Init ==
    /\ print_timings = FALSE
    /\ last_errors = <<>>
    /\ eval_context = [committed |-> InitialState]
    /\ stack = <<>>
    /\ returned = None
    /\ process = "running"
    /\ diagnostics = <<>>

Next ==
    \/ Execute
    \/ StepCode
    \/ StepCommand
    \/ StepQuit
    \/ StepLoadConfig
    \/ LoadConfigRead
    \/ LoadConfigExecute
    \/ LoadConfigDone
    \/ Eval
    \/ Return
    \/ Check
    \/ Completions
    \/ Acknowledge

Spec == Init /\ [][Next]_vars

----------------------------------------------------------------------------
(* process_command as a function of its inputs *)

\* The longest argument text the command segments below carry.
MaxArgs == 2

\* Command tokens that are not in the registry.
NoSuchNames ==
    { tNoSuch,
      SubSeq(tTiming, 1, Len(tTiming) - 1),
      tTiming \o <<"s">>,
      <<":", "O", "p", "t">> }

ArgChars == {" ", "1", "="}

\* What follows the name in a command segment.
Suffixes == UNION { [1..n -> ArgChars] : n \in 0..MaxArgs }

\* The longest argument text the :dep segments below carry.
MaxDepArgs == 4

DepChars == {"f", "1", " ", "="}

\* The :dep segments with an argument text.
DepTexts ==
    { tDep \o <<" ">> \o a : a \in UNION { [1..n -> DepChars] : n \in 1..MaxDepArgs } }

\* The Command segments process_command is given.
CommandTexts ==
    { name \o s : name \in RegistryNames \cup NoSuchNames, s \in Suffixes } \cup DepTexts

\* The dispatchers process_command is called on.
CommandContexts ==
    [print_timings : BOOLEAN,
     last_errors : {<<>>} \cup EngineErrorSets
                       \cup {<<EngineError("2", Some("x2")), EngineError("1", Some("x1"))>>},
     eval_context : { [committed |-> InitialState],
                      [committed |-> [InitialState EXCEPT !.variables = {"x"}]],
                      [committed |-> [InitialState EXCEPT !.opt_level = "0"]],
                      [committed |-> [InitialState EXCEPT !.opt_level = "1"]] }]

InitCommand ==
    /\ \E ctx \in CommandContexts :
          /\ print_timings = ctx.print_timings
          /\ last_errors = ctx.last_errors
          /\ eval_context = ctx.eval_context
    /\ stack = <<>>
    /\ returned = None
    /\ process = "running"
    /\ diagnostics = <<>>

\* process_command has returned r; first is the call before it on the same
\* working state, if there was one.
ProcessReturns(text, analysis_mode, state, r, first) ==
    /\ Prepared(r)
    /\ returned' = Some([op |-> "process_command", text |-> text,
                         analysis_mode |-> analysis_mode, start |-> state,
                         res |-> r.res, state |-> r.state, before |-> Ctx,
                         first |-> first])

\* One call of process_command on a working state fetched from the engine,
\* in either mode; the primary callbacks of :quit and :load_config are
\* steps of the dispatcher and are not called here.
ProcessCommand ==
    /\ returned = None
    /\ \E text \in CommandTexts, analysis_mode \in BOOLEAN :
          /\ analysis_mode \/ CommandCallOf(text).command \notin {tQuit, tLoadConfig}
          /\ \E ext \in ExtsFor(text) :
                ProcessReturns(text, analysis_mode, EngineState(eval_context),
                    process_command(Ctx, text, EngineState(eval_context),
                                    analysis_mode, ext),
                    None)
    /\ UNCHANGED <<stack, process, diagnostics>>

\* The same command once more, as the next segment of the same input: it
\* is given the working state the first call left.
ProcessCommandAgain ==
    /\ returned # None /\ returned[1].op = "process_command"
    /\ returned[1].first = None
    /\ \E ext \in ExtsFor(returned[1].text) :
          ProcessReturns(returned[1].text, returned[1].analysis_mode, returned[1].state,
              process_command(Ctx, returned[1].text, returned[1].state,
                              returned[1].analysis_mode, ext),
              Some([start |-> returned[1].start, res |-> returned[1].res,
                    state |-> returned[1].state, before |-> returned[1].before]))
    /\ UNCHANGED <<stack, process, diagnostics>>

NextCommand ==
    \/ ProcessCommand
    \/ ProcessCommandAgain

SpecCommand == InitCommand /\ [][NextCommand]_vars

----------------------------------------------------------------------------
(* What the properties speak about *)

\* The real-mode interactions the state knows of: those in progress and the
\* one whose result the front-end holds.
RealRuns ==
    { [to_run |-> stack[i].to_run, log |-> stack[i].log, before |-> stack[i].before,
       result |-> stack[i].result] : i \in 1..Len(stack) }
        \cup (IF returned # None /\ returned[1].op = "execute"
              THEN { [to_run |-> returned[1].to_run, log |-> returned[1].log,
                      before |-> returned[1].before, result |-> Some(returned[1].result)] }
              ELSE {})

IsCommandEvent(e) == e.kind = "command"

IsCode(text) == ~IsCommand(text)

\* The events of the callbacks of a log, in the order they ran.
CommandsOf(log) == SelectSeq(log, IsCommandEvent)

\* The indices of the Command segments of an input, ascending.
RECURSIVE CommandIndicesFrom(_, _)
CommandIndicesFrom(to_run, i) ==
    IF i > Len(to_run) THEN <<>>
    ELSE (IF IsCommand(to_run[i]) THEN <<i>> ELSE <<>>) \o CommandIndicesFrom(to_run, i + 1)

CommandIndices(to_run) == CommandIndicesFrom(to_run, 1)

\* The working state an interaction starts from.
StartState(run) == run.before.eval_context.committed

\* The working state after the last callback of a log.
StateAfterCommands(run) ==
    LET cs == CommandsOf(run.log)
    IN  IF cs = <<>> THEN StartState(run) ELSE cs[Len(cs)].after

HasEval(log) == \E j \in 1..Len(log) : log[j].kind = "eval"

\* The analysis calls whose result the front-end holds.
AnalysisReturned ==
    returned # None /\ returned[1].op \in {"check", "completions"}

----------------------------------------------------------------------------
(* C1 *)

C1Run(run) ==
    LET cs == CommandsOf(run.log)
        want == CommandIndices(run.to_run)
    IN  /\ Len(cs) <= Len(want)
        /\ \A k \in 1..Len(cs) :
              /\ cs[k].index = want[k]
              /\ cs[k].before = IF k = 1 THEN StartState(run) ELSE cs[k - 1].after
        /\ \A j \in 1..Len(run.log) :
              run.log[j].kind = "eval" =>
                  /\ j = Len(run.log)
                  /\ Len(cs) = Len(want)
                  /\ run.log[j].state = StateAfterCommands(run)
                  /\ run.log[j].code = SelectSeq(run.to_run, IsCode)

\* C1: in every real-mode interaction the callbacks run in the source order
\* of the Command segments, each on the working state the one before it
\* left (the first on the state fetched from the engine), and the engine's
\* eval gets the state the last one left and the Code segments in their
\* original order.
C1_SourceOrder == \A run \in RealRuns : C1Run(run)

\* An interaction has run two directives, the second on a state the first
\* changed, and then the engine.
C1_Witness ==
    \E run \in RealRuns :
        /\ HasEval(run.log)
        /\ Len(CommandsOf(run.log)) = 2
        /\ CommandsOf(run.log)[2].before # StartState(run)

----------------------------------------------------------------------------
(* C2 *)

\* C2, as claimed: when a Code segment precedes a Command segment, the
\* engine has executed that code, against the state as it was before the
\* command, by the time the command's callback has run.
C2_CodeBeforeLaterCommand ==
    \A run \in RealRuns : \A k \in 1..Len(run.log) :
        IsCommandEvent(run.log[k]) =>
            \A i \in 1..(run.log[k].index - 1) :
                IsCode(run.to_run[i]) =>
                    \E j \in 1..(k - 1) :
                        /\ run.log[j].kind = "eval"
                        /\ \E c \in 1..Len(run.log[j].code) : run.log[j].code[c] = run.to_run[i]
                        /\ run.log[j].state = run.log[k].before

\* C2, amended: the directives of an interaction run in source order as
\* their segments are reached, and the code of all Code segments, also of
\* those that precede a directive, is executed once, after the callback of
\* the last directive, against the state that callback left.
C2_CodeAfterAllCommands ==
    \A run \in RealRuns : \A e \in 1..Len(run.log) :
        run.log[e].kind = "eval" =>
            /\ \A j \in 1..Len(run.to_run) :
                  IsCommand(run.to_run[j]) =>
                      \E k \in 1..(e - 1) :
                          IsCommandEvent(run.log[k]) /\ run.log[k].index = j
            /\ \A i \in 1..Len(run.to_run) :
                  IsCode(run.to_run[i]) =>
                      \E c \in 1..Len(run.log[e].code) : run.log[e].code[c] = run.to_run[i]
            /\ run.log[e].state = StateAfterCommands(run)
            /\ \A j \in (1..Len(run.log)) \ {e} : run.log[j].kind # "eval"

\* Code that precedes a directive which changes the state has been executed
\* against the changed state.
C2_Witness ==
    \E run \in RealRuns : \E e \in 1..Len(run.log), k \in 1..Len(run.log) :
        /\ run.log[e].kind = "eval"
        /\ IsCommandEvent(run.log[k])
        /\ run.log[k].before # run.log[k].after
        /\ \E i \in 1..(run.log[k].index - 1) : IsCode(run.to_run[i])
        /\ run.log[e].state = run.log[k].after

----------------------------------------------------------------------------
(* C3 *)

\* C3: in real mode a callback that fails, or a name that is not in the
\* registry, is the last thing the interaction does: no callback and no eval
\* follows it, the interaction returns CompilationErrors with exactly one
\* error, the one of that command, and the process goes on running.
C3_FirstFailureEnds ==
    \A run \in RealRuns : \A k \in 1..Len(run.log) :
        (IsCommandEvent(run.log[k]) /\ ~run.log[k].ok) =>
            /\ k = Len(run.log)
            /\ run.result # None
            /\ run.result[1].tag = "CompilationErrors"
            /\ Len(run.result[1].errors) = 1
            /\ run.result[1] = run.log[k].res
            /\ process = "running"

\* An interaction was ended by an unknown directive that a further
\* directive follows.
C3_Witness ==
    \E run \in RealRuns : \E k \in 1..Len(run.log) :
        /\ IsCommandEvent(run.log[k]) /\ ~run.log[k].ok
        /\ CommandCallOf(run.to_run[run.log[k].index]).command \notin RegistryNames
        /\ \E j \in (run.log[k].index + 1)..Len(run.to_run) : IsCommand(run.to_run[j])
        /\ returned # None

----------------------------------------------------------------------------
(* C4 *)

\* The call of process_command whose result is at hand.
CommandReturned == returned # None /\ returned[1].op = "process_command"

\* The command token of a segment: its longest prefix without a space.
TokenLen(text) ==
    CHOOSE n \in 0..Len(text) :
        /\ \A i \in 1..n : text[i] # " "
        /\ n = Len(text) \/ text[n + 1] = " "

Token(text) == SubSeq(text, 1, TokenLen(text))

\* C4: for every command token that is not a name of the registry,
\* process_command, in real mode and in analysis mode, fails with one
\* CompilationError whose message is "Unrecognised command " followed by the
\* token and whose span covers the token from its first to its last
\* character and nothing else, and it changes neither the working state nor
\* the dispatcher nor the engine.
C4_UnrecognisedCommand ==
    (CommandReturned /\ Token(returned[1].text) \notin RegistryNames) =>
        /\ returned[1].res.tag = "Err"
        /\ returned[1].res.error.message
               = "Unrecognised command " \o Str(Token(returned[1].text))
        /\ Covered(returned[1].res.error.span) = 1..TokenLen(returned[1].text)
        /\ returned[1].state = returned[1].start
        /\ Ctx = returned[1].before

\* An unrecognised command with an argument, in analysis mode, on a
\* dispatcher that shows timings and retains errors.
C4_Witness ==
    /\ CommandReturned
    /\ returned[1].analysis_mode
    /\ returned[1].text = tNoSuch \o <<" ", "1">>
    /\ returned[1].res.tag = "Err"
    /\ print_timings /\ last_errors # <<>>

----------------------------------------------------------------------------
(* C5 *)

\* The call of check whose result is at hand.
CheckReturned == returned # None /\ returned[1].op = "check"

IsFailedEvent(e) == ~e.ok

\* The errors of the directives of a log that failed, in the order of the log.
ErrorsOf(log) ==
    [j \in 1..Len(SelectSeq(log, IsFailedEvent)) |-> SelectSeq(log, IsFailedEvent)[j].res.error]

\* Every directive of the input was attempted, in source order, each on the
\* working state the one before it left.
AllAttempted(run) ==
    /\ [j \in 1..Len(run.log) |-> run.log[j].index] = CommandIndices(run.to_run)
    /\ \A j \in 1..Len(run.log) :
          /\ IsCommandEvent(run.log[j])
          /\ run.log[j].before = IF j = 1 THEN StartState(run) ELSE run.log[j - 1].after

\* What check does once the directives are through, the manifest written.
CheckOutcome(run) ==
    IF ErrorsOf(run.log) # <<>>
    THEN /\ run.result = Ok(ErrorsOf(run.log))
         /\ run.engine_calls = <<>>
    ELSE run.engine_calls = <<[code |-> SelectSeq(run.to_run, IsCode),
                               state |-> StateAfterCommands(run)]>>

\* C5, as claimed: check attempts every directive of the input, also after
\* one has failed, and collects the errors in source order; if a directive
\* failed it returns exactly the collected errors and does not call the
\* engine's check; if none failed it calls the engine's check exactly once
\* with the accumulated code and the mutated working state.
C5_CollectedOrChecked ==
    CheckReturned => AllAttempted(returned[1]) /\ CheckOutcome(returned[1])

\* C5, amended: the same, provided write_cargo_toml succeeds on the mutated
\* working state; if it fails, check returns that failure, neither the
\* collected errors nor a diagnostic of the engine, and the engine's check
\* is not called.
C5_CollectedOrCheckedIfManifestWritten ==
    CheckReturned =>
        /\ AllAttempted(returned[1])
        /\ returned[1].toml_ok => CheckOutcome(returned[1])
        /\ ~returned[1].toml_ok =>
              /\ returned[1].result.tag \notin {"Ok", "CompilationErrors"}
              /\ returned[1].engine_calls = <<>>

\* A check of two directives that both fail: the second was attempted after
\* the failure of the first and both errors are returned, in source order.
C5_Witness ==
    /\ CheckReturned
    /\ returned[1].to_run = <<tDep, tNoSuch>>
    /\ returned[1].toml_ok
    /\ returned[1].result.tag = "Ok"
    /\ Len(returned[1].result.out) = 2
    /\ returned[1].result.out[1].message = ":dep requires arguments"
    /\ returned[1].result.out[2].message = "Unrecognised command :zz"

----------------------------------------------------------------------------
(* C6 *)

\* C6: a call of check or of completions, whatever directives its input
\* holds, leaves the dispatcher's timing flag, its retained errors and the
\* engine's committed state and session as they were before the call.
C6_QueryLeavesNoChange ==
    AnalysisReturned => Ctx = returned[1].before

----------------------------------------------------------------------------
(* C7 *)

\* The directives whose analysis callback is the one disable_in_analysis
\* installs.
DisabledInAnalysis == {tQuit, tLoadConfig}

\* C7: in a call of check or completions the callbacks of :quit and of
\* :load_config return empty outputs and no error, leave the working state
\* as they found it and touch neither dispatcher nor engine; the process
\* goes on running and no real-mode interaction is in progress when the
\* call returns.
C7_DisabledInAnalysis ==
    AnalysisReturned =>
        \A j \in 1..Len(returned[1].log) :
            Token(returned[1].to_run[returned[1].log[j].index]) \in DisabledInAnalysis =>
                /\ returned[1].log[j].res = Ok(EvalOutputsNew)
                /\ returned[1].log[j].after = returned[1].log[j].before
                /\ ~returned[1].log[j].touched
                /\ process = "running"
                /\ stack = <<>>

\* A check of :quit followed by :load_config has returned in a session that
\* has a variable bound.
C7_Witness ==
    /\ CheckReturned
    /\ returned[1].to_run = <<tQuit, tLoadConfig>>
    /\ Len(returned[1].log) = 2
    /\ eval_context.committed.variables # {}
    /\ process = "running"

----------------------------------------------------------------------------
(* C8 *)

\* The call of execute whose result is at hand.
ExecuteReturned == returned # None /\ returned[1].op = "execute"

\* What :explain prints for a retained set in which every error has an
\* explanation.
Explanations(errors) ==
    text_output(Concat([i \in 1..Len(errors) |-> errors[i].explanation[1]]))

\* C8: a real-mode interaction that succeeds leaves the retained errors as
\* they were before it, and a successful :explain in it has printed the
\* explanations of that set.
C8_RetainedAcrossSuccess ==
    (ExecuteReturned /\ returned[1].result.tag = "Ok") =>
        /\ last_errors = returned[1].before.last_errors
        /\ \A j \in 1..Len(returned[1].log) :
              (/\ IsCommandEvent(returned[1].log[j])
               /\ returned[1].to_run[returned[1].log[j].index] = tExplain) =>
                  returned[1].log[j].res = Ok(Explanations(returned[1].before.last_errors))

\* After a compilation failure an interaction with :explain and code has
\* succeeded.
C8_Witness ==
    /\ ExecuteReturned
    /\ returned[1].result.tag = "Ok"
    /\ returned[1].to_run = <<tExplain, tExpr>>
    /\ HasEval(returned[1].log)
    /\ last_errors \in EngineErrorSets

----------------------------------------------------------------------------
(* C9 *)

\* The interactions that have their result: the one about to return to its
\* caller and the one whose result the front-end holds.
FinishedRuns ==
    (IF stack # <<>> /\ Top.pc = "return"
     THEN { [to_run |-> Top.to_run, log |-> Top.log, before |-> Top.before,
             result |-> Top.result[1]] }
     ELSE {})
        \cup (IF ExecuteReturned
              THEN { [to_run |-> returned[1].to_run, log |-> returned[1].log,
                      before |-> returned[1].before, result |-> returned[1].result] }
              ELSE {})

\* The engine's eval was the last thing the interaction did and it failed
\* with compilation errors.
EvalFailed(run) ==
    /\ run.log # <<>>
    /\ run.log[Len(run.log)].kind = "eval"
    /\ run.result.tag = "CompilationErrors"

\* C9: when the engine's eval fails with compilation errors, the
\* interaction returns exactly the set the engine reported, without the
\* outputs of the directives that ran before, and the retained errors are
\* that set and nothing of the set retained before.
C9_ReplacedWholesale ==
    \A run \in FinishedRuns :
        EvalFailed(run) =>
            /\ run.result = ErrCompilationErrors(last_errors)
            /\ last_errors \in EngineErrorSets

\* The eval has failed after a directive that printed something, in a
\* session that retained another set of errors.
C9_Witness ==
    \E run \in FinishedRuns :
        /\ EvalFailed(run)
        /\ run.before.last_errors # <<>>
        /\ run.before.last_errors # last_errors
        /\ \E j \in 1..Len(run.log) :
              /\ IsCommandEvent(run.log[j])
              /\ run.log[j].ok
              /\ run.log[j].res.out.content # <<>>

----------------------------------------------------------------------------
(* C10 *)

\* What the guards of the calls in progress print when a panic unwinds
\* them: the source text and the state of each, the innermost first.
PanicDiagnostics ==
    [i \in 1..Len(stack) |->
        [code |-> stack[Len(stack) + 1 - i].to_run,
         state |-> stack[Len(stack) + 1 - i].before.eval_context.committed]]

\* C10: the guard of every call of execute_with_callbacks in progress is
\* armed; the diagnostic of a guard is printed if and only if the call
\* ended by a panic, and then it holds the source text and the state of
\* the call; when a call has returned normally, with a success or with an
\* error, nothing has been printed and, once the outermost call has
\* returned, no guard is left.
C10_GuardArmedDuringCall ==
    /\ \A i \in 1..Len(stack) : stack[i].guard.armed
    /\ process = "panicked" => diagnostics = PanicDiagnostics /\ stack # <<>>
    /\ process # "panicked" => diagnostics = <<>>
    /\ ExecuteReturned => stack = <<>>

\* The interactions that :load_config started have returned normally, one
\* with a success and one with a handled error, and so has the outer one.
C10_Witness ==
    /\ ExecuteReturned
    /\ returned[1].to_run = <<tLoadConfig>>
    /\ returned[1].result.tag # "Ok"
    /\ eval_context.committed.opt_level # InitialState.opt_level
    /\ diagnostics = <<>>

----------------------------------------------------------------------------
(* C11 *)

\* The interactions a replay of the directory is to run: one per line of the
\* startup file and then the prelude.
Replay(config) ==
    [j \in 1..((IF config.init = None THEN 0 ELSE Len(config.init[1]))
                 + (IF config.prelude = None THEN 0 ELSE 1)) |->
        IF config.init # None /\ j <= Len(config.init[1])
        THEN config.init[1][j]
        ELSE config.prelude[1]]

\* The number of interactions logged right after the event at k.
NestedCount(log, k) ==
    CHOOSE m \in 0..(Len(log) - k) :
        /\ \A j \in 1..m : log[k + j].kind = "nested"
        /\ k + m = Len(log) \/ log[k + m + 1].kind # "nested"

\* The call of load_config logged at k: what it has run so far and, if it
\* has returned, what :load_config made of it.
C11Load(log, k, m, want) ==
    /\ m <= Len(want)
    /\ \A j \in 1..m : log[k + j].to_run = want[j]
    /\ \A j \in 1..(m - 1) : log[k + j].result.tag = "Ok"
    /\ k + m < Len(log) =>
          /\ IsCommandEvent(log[k + m + 1])
          /\ log[k + m + 1].ok =>
                /\ m = Len(want)
                /\ \A j \in 1..m : log[k + j].result.tag = "Ok"
          /\ (m > 0 /\ log[k + m].result.tag # "Ok") =>
                /\ ~log[k + m + 1].ok
                /\ log[k + m + 1].res.errors[1].message = ErrorToString(log[k + m].result)
          /\ want = <<>> => log[k + m + 1].res = Ok(EvalOutputsNew)

\* The event of the call of load_config that is in progress.
LoadStart(log) ==
    CHOOSE k \in 1..Len(log) :
        /\ log[k].kind = "load_config"
        /\ \A j \in (k + 1)..Len(log) : log[j].kind = "nested"

\* The interaction a call of load_config has in progress is the one that
\* follows those it has run.
C11Running(log, k, to_run) ==
    /\ Len(log) - k < Len(Replay(log[k].config))
    /\ to_run = Replay(log[k].config)[Len(log) - k + 1]

\* C11: load_config runs the lines of the startup file as interactions of
\* their own, in line order, and then the prelude as one interaction, each
\* after the one before it has returned; the first that fails is the last
\* one run and its failure is what :load_config fails with; when there is
\* neither file nothing is run and :load_config succeeds with empty output.
C11_ReplayInOrder ==
    /\ \A run \in RealRuns : \A k \in 1..Len(run.log) :
          run.log[k].kind = "load_config" =>
              C11Load(run.log, k, NestedCount(run.log, k), Replay(run.log[k].config))
    /\ \A i \in 1..(Len(stack) - 1) :
          /\ stack[i].pc = "load_config"
          /\ C11Running(stack[i].log, LoadStart(stack[i].log), stack[i + 1].to_run)

\* One input has replayed the whole directory, the prelude last, and then
\* replayed it again up to a line that failed.
C11_Witness ==
    /\ ExecuteReturned
    /\ returned[1].to_run = <<tLoadConfig, tLoadConfig>>
    /\ Len(returned[1].log) = 9
    /\ returned[1].log[4].to_run = <<tLet>>
    /\ returned[1].log[5].ok
    /\ returned[1].log[8].kind = "nested"
    /\ returned[1].log[8].result.tag # "Ok"
    /\ ~returned[1].log[9].ok

----------------------------------------------------------------------------
(* C12 *)

\* Where the argument of a command segment starts: at the first character
\* after the token that is not a space; 0 when there is none.
ArgStart(text) ==
    IF \A p \in (TokenLen(text) + 1)..Len(text) : text[p] = " " THEN 0
    ELSE CHOOSE p \in (TokenLen(text) + 1)..Len(text) :
             /\ text[p] # " "
             /\ \A q \in (TokenLen(text) + 1)..(p - 1) : text[q] = " "

HasArg(text) == ArgStart(text) # 0

Arg(text) == SubSeq(text, ArgStart(text), Len(text))

\* C12: :opt without an argument leaves the working state with level "0"
\* when it had level "2" and with level "2" when it had any other level;
\* run twice from level "2" it leaves "0" and then "2"; with an argument it
\* leaves the level that is the argument.
C12_OptToggle ==
    (CommandReturned /\ Token(returned[1].text) = tOpt) =>
        /\ returned[1].res.tag = "Ok"
        /\ returned[1].state.opt_level =
              IF HasArg(returned[1].text) THEN Str(Arg(returned[1].text))
              ELSE IF returned[1].start.opt_level = "2" THEN "0"
              ELSE "2"
        /\ (/\ ~HasArg(returned[1].text)
            /\ returned[1].first # None
            /\ returned[1].first[1].start.opt_level = "2") =>
                /\ returned[1].first[1].state.opt_level = "0"
                /\ returned[1].state.opt_level = "2"

\* :opt without an argument has run on level "1".
C12_Witness ==
    /\ CommandReturned
    /\ returned[1].text = tOpt
    /\ returned[1].first = None
    /\ returned[1].start.opt_level = "1"
    /\ returned[1].state.opt_level = "2"

----------------------------------------------------------------------------
(* C13 *)

\* A text without the spaces at its ends.
Trim(cs) ==
    IF \A i \in 1..Len(cs) : cs[i] = " " THEN <<>>
    ELSE SubSeq(cs,
                CHOOSE i \in 1..Len(cs) :
                    cs[i] # " " /\ \A j \in 1..(i - 1) : cs[j] = " ",
                CHOOSE i \in 1..Len(cs) :
                    cs[i] # " " /\ \A j \in (i + 1)..Len(cs) : cs[j] = " ")

Has(cs, c) == \E i \in 1..Len(cs) : cs[i] = c

\* The position of the first '=' of a text that has one.
FirstEq(cs) == CHOOSE i \in 1..Len(cs) : cs[i] = "=" /\ \A j \in 1..(i - 1) : cs[j] # "="

\* The name and the requirement of an argument of :dep: the two sides of
\* its first '=', trimmed; None for the requirement when there is no '='.
DepName(arg) ==
    IF Has(arg, "=") THEN Trim(SubSeq(arg, 1, FirstEq(arg) - 1)) ELSE Trim(arg)

DepRequirement(arg) ==
    IF Has(arg, "=") THEN Some(Trim(SubSeq(arg, FirstEq(arg) + 1, Len(arg)))) ELSE None

\* The argument has the form name or name = requirement.
DepWellFormed(arg) ==
    /\ DepName(arg) # <<>>
    /\ ~Has(DepName(arg), " ")
    /\ DepRequirement(arg) # Some(<<>>)

\* The dependencies after (name, requirement) has been registered.
WithDep(deps, name, requirement) ==
    { d \in deps : d[1] # name } \cup {<<name, requirement>>}

\* C13: :dep with an argument of the form name or name = requirement, split
\* at the first '=' and both sides trimmed, succeeds and registers the
\* name with the requirement, or with "*" in quotes when there is none;
\* with no argument or one of another form it fails and leaves the
\* dependencies of the working state as they were.
C13_DepParsed ==
    (CommandReturned /\ Token(returned[1].text) = tDep) =>
        IF HasArg(returned[1].text) /\ DepWellFormed(Arg(returned[1].text))
        THEN /\ returned[1].res.tag = "Ok"
             /\ returned[1].state.deps =
                   WithDep(returned[1].start.deps,
                           Str(DepName(Arg(returned[1].text))),
                           IF DepRequirement(Arg(returned[1].text)) = None THEN "\"*\""
                           ELSE Str(DepRequirement(Arg(returned[1].text))[1]))
        ELSE /\ returned[1].res.tag # "Ok"
             /\ returned[1].state = returned[1].start

----------------------------------------------------------------------------
(* C14 *)

\* C14: :explain fails, with the message that there is no last error, when
\* no error is retained; it fails when a retained error has no explanation;
\* otherwise it succeeds with the explanations of the retained errors in
\* their order; it always returns, and leaves the retained errors, the rest
\* of the dispatcher, the engine and the working state as they were.
C14_Explain ==
    (CommandReturned /\ Token(returned[1].text) = tExplain) =>
        /\ IF returned[1].before.last_errors = <<>>
           THEN /\ returned[1].res.tag = "Err"
                /\ returned[1].res.error.message = "No last error to explain"
           ELSE IF \E i \in 1..Len(returned[1].before.last_errors) :
                      returned[1].before.last_errors[i].explanation = None
           THEN returned[1].res.tag = "Err"
           ELSE returned[1].res = Ok(Explanations(returned[1].before.last_errors))
        /\ Ctx = returned[1].before
        /\ returned[1].state = returned[1].start
        /\ process = "running"

\* :explain has printed the explanations of two retained errors.
C14_Witness ==
    /\ CommandReturned
    /\ Token(returned[1].text) = tExplain
    /\ Len(last_errors) = 2
    /\ returned[1].res = Ok(text_output("x2x1"))

----------------------------------------------------------------------------
(* C15 *)

\* One line of the text of :help and one row of its table.
HelpLine(command) ==
    PadRight(Str(command.name), HelpWidth - Len(command.name))
        \o " " \o command.short_description \o "\n"

HelpRow(command) ==
    "<tr><td>" \o Str(command.name) \o "</td><td>" \o command.short_description
        \o "</td></tr>\n"

\* The listing of the commands in the given order, as text and as HTML.
HelpListing(commands) ==
    text_html(Concat([k \in 1..Len(commands) |-> HelpLine(commands[k])]),
              "<table>\n" \o Concat([k \in 1..Len(commands) |-> HelpRow(commands[k])])
                  \o "</table>\n")

\* The order holds every entry of the catalog exactly once, by ascending
\* name.
ListsCatalogByName(order) ==
    /\ Len(order) = Len(create_commands)
    /\ \A i \in 1..Len(create_commands) :
          Cardinality({ k \in 1..Len(order) : order[k] = create_commands[i] }) = 1
    /\ \A k \in 1..(Len(order) - 1) : NameLess(order[k].name, order[k + 1].name)

\* C15: no two descriptors of the catalog have the same name and the
\* registry holds each of them under its name; :help, whenever it runs,
\* prints, as text and as
\* HTML, one entry per descriptor of the catalog, the same entries in the
\* same order in both, the order being that of ascending names.
C15_HelpListsCatalog ==
    (CommandReturned /\ Token(returned[1].text) = tHelp) =>
        /\ \A i, j \in 1..Len(create_commands) :
              i # j => create_commands[i].name # create_commands[j].name
        /\ Cardinality(DOMAIN commands_by_name) = Len(create_commands)
        /\ \A i \in 1..Len(create_commands) :
              commands_by_name[create_commands[i].name] = create_commands[i]
        /\ ListsCatalogByName(HelpCommands)
        /\ returned[1].res = Ok(HelpListing(HelpCommands))

\* :help has run and the catalog is not in the order of the names.
C15_Witness ==
    /\ CommandReturned
    /\ returned[1].text = tHelp
    /\ returned[1].res.tag = "Ok"
    /\ \E k \in 1..(Len(create_commands) - 1) :
          NameLess(create_commands[k + 1].name, create_commands[k].name)

----------------------------------------------------------------------------
(* C16 *)

\* The positions of the log at which the engine's eval was called.
EvalsOf(log) == { j \in 1..Len(log) : log[j].kind = "eval" }

NoCommandFailed(log) ==
    \A j \in 1..Len(log) : IsCommandEvent(log[j]) => log[j].ok

C16_WitnessDirectivesOnly ==
    \E run \in FinishedRuns :
        /\ run.to_run = <<tOpt, tTiming>>
        /\ Len(run.log) = 3
        /\ run.log[3].kind = "eval"
        /\ run.log[3].code = <<>>

----------------------------------------------------------------------------
(* C17 *)

\* C17: the error of a callback that failed has a span that starts at the
\* first character of the argument, or at the first character of the
\* segment when there is no argument, and ends at the last character of
\* the segment, in characters.
C17_FailedCommandSpan ==
    (/\ CommandReturned
     /\ Token(returned[1].text) \in RegistryNames
     /\ returned[1].res.tag = "Err") =>
        Covered(returned[1].res.error.span)
            = (IF HasArg(returned[1].text) THEN ArgStart(returned[1].text) ELSE 1)
                  .. Len(returned[1].text)

----------------------------------------------------------------------------
(* C18 *)

\* A callback that acts on the engine itself has run in the interaction:
\* the one of :clear or the one of :load_config.
ActedOnEngine(run) ==
    \E j \in 1..Len(run.log) :
        \/ run.log[j].kind = "load_config"
        \/ IsCommandEvent(run.log[j]) /\ Token(run.to_run[run.log[j].index]) = tClear

\* The state without its variables.
Configuration(state) == [state EXCEPT !.variables = {}]

\* C18, as claimed: when an interaction has ended in a failure, the engine
\* is as it was before the interaction, whatever directives ran before the
\* failure.
C18_FailureDiscards ==
    \A run \in FinishedRuns :
        run.result.tag # "Ok" => eval_context = run.before.eval_context

\* C18, amended: when an interaction in which neither :clear nor
\* :load_config ran has ended in a failure, the engine is as it was before
\* the interaction; when an interaction has succeeded, the configuration
\* the engine has committed is that of the working state its eval got.
C18_FailureDiscardsUnlessEngineDirective ==
    \A run \in FinishedRuns :
        /\ (run.result.tag # "Ok" /\ ~ActedOnEngine(run)) =>
              eval_context = run.before.eval_context
        /\ run.result.tag = "Ok" =>
              Configuration(eval_context.committed)
                  = Configuration(run.log[Len(run.log)].state)

\* An interaction failed after a directive had changed its working state.
C18_Witness ==
    \E run \in FinishedRuns :
        /\ run.result.tag # "Ok"
        /\ ~ActedOnEngine(run)
        /\ \E j \in 1..Len(run.log) :
              /\ IsCommandEvent(run.log[j])
              /\ run.log[j].after # run.log[j].before

----------------------------------------------------------------------------
(* C19 *)

\* The last directive of the input is :clear.
ClearIsLastCommand(run) ==
    /\ run.log # <<>>
    /\ Token(run.to_run[run.log[Len(run.log)].index]) = tClear

\* C19: in a call of check or completions the callback of :clear returns
\* empty outputs, leaves as working state the engine's cleared_state() and
\* leaves the engine as it was; when the call returns the engine is as it
\* was before the call, and when :clear was the last directive the engine's
\* check, if it was called, got the code of the input with the cleared
\* state.
C19_ClearInAnalysis ==
    AnalysisReturned =>
        /\ \A j \in 1..Len(returned[1].log) :
              Token(returned[1].to_run[returned[1].log[j].index]) = tClear =>
                  /\ returned[1].log[j].res = Ok(EvalOutputsNew)
                  /\ returned[1].log[j].after = ClearedState(returned[1].before.eval_context)
                  /\ eval_context = returned[1].before.eval_context
        /\ (/\ CheckReturned
            /\ ClearIsLastCommand(returned[1])
            /\ returned[1].engine_calls # <<>>) =>
              returned[1].engine_calls
                  = <<[code |-> SelectSeq(returned[1].to_run, IsCode),
                       state |-> ClearedState(returned[1].before.eval_context)]>>

\* Code that follows :clear has been checked against a state without the
\* variable the session still has.
C19_Witness ==
    /\ CheckReturned
    /\ returned[1].to_run = <<tClear, tExpr>>
    /\ returned[1].engine_calls # <<>>
    /\ returned[1].engine_calls[1].state.variables = {}
    /\ eval_context.committed.variables = {"x"}

----------------------------------------------------------------------------
(* C20 *)

\* The event at k is the return of the callback of :load_config.
IsLoadConfigDone(run, k) ==
    IsCommandEvent(run.log[k]) /\ Token(run.to_run[run.log[k].index]) = tLoadConfig

\* C20: when the callback of :load_config has returned in real mode, with
\* a success or with a failure, and the interaction has done nothing
\* since, its working state is the engine's committed state; the directive
\* or the eval that comes next in the interaction is given that state.
C20_StateAfterLoadConfig ==
    /\ (stack # <<>> /\ Top.log # <<>> /\ IsLoadConfigDone(Top, Len(Top.log))) =>
          /\ Top.log[Len(Top.log)].after = eval_context.committed
          /\ Top.state = eval_context.committed
    /\ (/\ ExecuteReturned
        /\ returned[1].log # <<>>
        /\ IsLoadConfigDone(returned[1], Len(returned[1].log))) =>
          returned[1].log[Len(returned[1].log)].after = eval_context.committed
    /\ \A run \in RealRuns : \A k \in 1..(Len(run.log) - 1) :
          IsLoadConfigDone(run, k) =>
              /\ IsCommandEvent(run.log[k + 1]) => run.log[k + 1].before = run.log[k].after
              /\ run.log[k + 1].kind = "eval" => run.log[k + 1].state = run.log[k].after

\* The eval that follows :load_config has got the variable that the
\* prelude bound.
C20_Witness ==
    \E run \in RealRuns :
        /\ run.to_run = <<tLoadConfig, tExpr>>
        /\ StartState(run).variables = {}
        /\ HasEval(run.log)
        /\ run.log[Len(run.log)].state.variables = {"x"}

----------------------------------------------------------------------------
(* C21 *)

\* The payloads of the errors, one after the other.
Payloads(errors) == Concat([i \in 1..Len(errors) |-> errors[i].json])

\* The payloads of the errors, each followed by a line break.
PayloadLines(errors) == Concat([i \in 1..Len(errors) |-> errors[i].json \o "\n"])

\* The event at k is a call of the callback of :last_error_json.
IsLastErrorJson(run, k) ==
    IsCommandEvent(run.log[k]) /\ Token(run.to_run[run.log[k].index]) = tLastErrorJson

\* :last_error_json, called at k in real mode, has failed with the message,
\* has changed nothing and was the last thing the interaction did.
C21Real(run, k, message) ==
    /\ run.log[k].res.tag = "CompilationErrors"
    /\ Len(run.log[k].res.errors) = 1
    /\ run.log[k].res.errors[1].message = message
    /\ run.log[k].after = run.log[k].before
    /\ ~run.log[k].touched
    /\ k = Len(run.log)
    /\ run.result = Some(run.log[k].res)

\* :last_error_json, called at k in analysis mode, has failed with the
\* message and has changed nothing.
C21Analysed(run, k, message) ==
    /\ run.log[k].res.tag = "Err"
    /\ run.log[k].res.error.message = message
    /\ run.log[k].after = run.log[k].before
    /\ ~run.log[k].touched

\* C21, as claimed: :last_error_json always fails, also when no error is
\* retained; the message of the failure is the concatenation of the
\* payloads of the retained errors in their order; it changes neither the
\* retained errors nor the working state; in real mode no callback and no
\* eval follows it.
C21_LastErrorJsonFails ==
    /\ \A run \in RealRuns : \A k \in 1..Len(run.log) :
          IsLastErrorJson(run, k) => C21Real(run, k, Payloads(last_errors))
    /\ AnalysisReturned =>
          \A k \in 1..Len(returned[1].log) :
              IsLastErrorJson(returned[1], k) =>
                  C21Analysed(returned[1], k, Payloads(last_errors))

\* C21, amended: the same, the message being the payloads of the retained
\* errors in their order, each followed by a line break (and so the empty
\* message when no error is retained).
C21_LastErrorJsonFailsWithLines ==
    /\ \A run \in RealRuns : \A k \in 1..Len(run.log) :
          IsLastErrorJson(run, k) => C21Real(run, k, PayloadLines(last_errors))
    /\ AnalysisReturned =>
          \A k \in 1..Len(returned[1].log) :
              IsLastErrorJson(returned[1], k) =>
                  C21Analysed(returned[1], k, PayloadLines(last_errors))

\* With two errors retained, an input of :last_error_json and code has
\* returned the failure of the directive, and the code was not evaluated.
C21_Witness ==
    /\ ExecuteReturned
    /\ returned[1].to_run = <<tLastErrorJson, tExpr>>
    /\ Len(last_errors) = 2
    /\ returned[1].result.tag = "CompilationErrors"
    /\ returned[1].result.errors[1].message = "{2}\n{3}\n"
    /\ ~HasEval(returned[1].log)

\* With no error retained, :last_error_json has failed with the empty
\* message.
C21_WitnessNoneRetained ==
    /\ ExecuteReturned
    /\ returned[1].to_run = <<tLastErrorJson>>
    /\ last_errors = <<>>
    /\ returned[1].result.tag = "CompilationErrors"
    /\ returned[1].result.errors[1].message = ""

----------------------------------------------------------------------------
(* C22 *)

\* The step is the return of the engine's eval, in real mode, with the
\* compilation errors that are retained after it.
EvalReturnsRetained ==
    /\ InSegments
    /\ Top.idx > Len(Top.to_run)
    /\ Len(stack') = Len(stack)
    /\ stack'[Len(stack')].pc = "return"
    /\ stack'[Len(stack')].result = Some(ErrCompilationErrors(last_errors'))

\* The interaction was ended by a directive: one that failed or one that is
\* not in the registry.
EndedByDirective(run) ==
    /\ run.log # <<>>
    /\ IsCommandEvent(run.log[Len(run.log)])
    /\ ~run.log[Len(run.log)].ok

\* The failure of a directive is returned as CompilationErrors and is not
\* what the dispatcher retains.
DirectiveFailureNotRetained ==
    \A run \in FinishedRuns :
        EndedByDirective(run) =>
            /\ run.result.tag = "CompilationErrors"
            /\ run.result.errors # last_errors

\* C22: the retained errors change only in a step in which the engine's
\* eval returns compilation errors in real mode, and then to those errors;
\* no step of a directive, whether it is unknown, fails or succeeds, no
\* other result of the eval and no call of check or completions changes
\* them, although the failure of a directive is returned to the caller as
\* CompilationErrors too.
C22_RetainedChangesOnlyOnEvalErrors ==
    [][/\ last_errors' # last_errors => EvalReturnsRetained
       /\ DirectiveFailureNotRetained']_vars

\* With errors retained, an interaction ended by an unknown directive has
\* returned its CompilationErrors, and the retained errors are those of
\* before.
C22_Witness ==
    /\ ExecuteReturned
    /\ returned[1].to_run = <<tNoSuch>>
    /\ returned[1].result.tag = "CompilationErrors"
    /\ last_errors \in EngineErrorSets
    /\ last_errors = returned[1].before.last_errors

\* With errors retained, a check of a failing directive has returned its
\* error, and the retained errors are those of before.
C22_WitnessCheck ==
    /\ CheckReturned
    /\ returned[1].to_run = <<tDep>>
    /\ returned[1].result.tag = "Ok"
    /\ Len(returned[1].result.out) = 1
    /\ last_errors \in EngineErrorSets
    /\ last_errors = returned[1].before.last_errors

----------------------------------------------------------------------------
(* C23 *)

\* The events before k after which the engine's committed state is the
\* working state they left: a :clear that succeeded and a :load_config
\* that returned.
EngineEvents(run, k) ==
    { j \in 1..(k - 1) :
        /\ IsCommandEvent(run.log[j])
        /\ \/ run.log[j].ok /\ Token(run.to_run[run.log[j].index]) = tClear
           \/ Token(run.to_run[run.log[j].index]) = tLoadConfig }

\* The engine's committed state when the event at k was logged.
EngineBefore(run, k) ==
    IF EngineEvents(run, k) = {} THEN StartState(run)
    ELSE run.log[CHOOSE j \in EngineEvents(run, k) :
                     \A i \in EngineEvents(run, k) : i <= j].after

\* The working state an interaction that starts from the given committed
\* state has after the directives of its input from i on.
RECURSIVE WorkingFrom(_, _, _)
WorkingFrom(to_run, i, state) ==
    IF i > Len(to_run) THEN state
    ELSE IF IsCommand(to_run[i])
    THEN WorkingFrom(to_run, i + 1,
             process_command([print_timings |-> FALSE, last_errors |-> <<>>,
                              eval_context |-> [committed |-> state]],
                             to_run[i], state, FALSE,
                             [clear_ok |-> TRUE, sccache_installed |-> TRUE]).state)
    ELSE WorkingFrom(to_run, i + 1, state)

\* What an interaction that succeeds commits when it starts from the given
\* committed state.
CommitsFrom(state, to_run) ==
    [WorkingFrom(to_run, 1, state) EXCEPT
        !.variables = BindAll(state.variables, SelectSeq(to_run, IsCode))]

\* The engine's committed state after the first m interactions that the
\* call of load_config logged at k has run, were each of them to start from
\* the state committed before it.
RECURSIVE EngineAfterReplay(_, _, _, _)
EngineAfterReplay(log, k, m, state) ==
    IF m = 0 THEN state
    ELSE IF log[k + m].result.tag = "Ok"
    THEN CommitsFrom(EngineAfterReplay(log, k, m - 1, state), log[k + m].to_run)
    ELSE EngineAfterReplay(log, k, m - 1, state)

\* The working state the first step of an interaction was given.
FirstGiven(frame) ==
    IF frame.log = <<>> THEN frame.state
    ELSE IF IsCommandEvent(frame.log[1]) THEN frame.log[1].before
    ELSE frame.log[1].state

\* C23: every interaction that load_config runs starts from the state the
\* engine has committed at that moment, which is what the engine had when
\* :load_config was reached and the interactions replayed before it have
\* committed, and not from the working copy of the interaction that issued
\* :load_config; when :load_config returns, the working copy of that
\* interaction is the state so committed, so that what directives before
\* :load_config did to the working copy is neither seen by the replayed
\* interactions nor committed by them nor kept afterwards.
C23_ReplayFromCommitted ==
    /\ \A i \in 2..Len(stack) :
          /\ stack[i].before.eval_context.committed
                = EngineAfterReplay(stack[i - 1].log, LoadStart(stack[i - 1].log),
                      Len(stack[i - 1].log) - LoadStart(stack[i - 1].log),
                      EngineBefore(stack[i - 1], LoadStart(stack[i - 1].log)))
          /\ FirstGiven(stack[i]) = stack[i].before.eval_context.committed
          /\ stack[i].log = <<>> => stack[i].state = eval_context.committed
    /\ \A run \in RealRuns : \A k \in 1..Len(run.log) :
          (/\ run.log[k].kind = "load_config"
           /\ k + NestedCount(run.log, k) < Len(run.log)) =>
              run.log[k + NestedCount(run.log, k) + 1].after
                  = EngineAfterReplay(run.log, k, NestedCount(run.log, k),
                                      EngineBefore(run, k))
    /\ \A run \in FinishedRuns :
          (run.log # <<>> /\ IsLoadConfigDone(run, Len(run.log))) =>
              eval_context.committed = run.log[Len(run.log)].after

\* A line of the startup file is about to run, from the committed state,
\* while the interaction that issued :load_config has a working copy that
\* a directive before :load_config has changed.
C23_Witness ==
    /\ Len(stack) = 2
    /\ stack[1].to_run = <<tOpt, tLoadConfig>>
    /\ stack[1].state # eval_context.committed
    /\ stack[2].to_run = <<tOpt>>
    /\ stack[2].log = <<>>
    /\ stack[2].state = eval_context.committed

\* :load_config has returned, no file found, after :opt had changed the
\* working copy, and the eval has succeeded: the working copy was the
\* committed state again and the level :opt set has not been committed.
C23_WitnessOverwritten ==
    /\ ExecuteReturned
    /\ returned[1].to_run = <<tOpt, tLoadConfig>>
    /\ Len(returned[1].log) = 4
    /\ returned[1].result.tag = "Ok"
    /\ returned[1].log[1].after.opt_level # StartState(returned[1]).opt_level
    /\ returned[1].log[3].ok
    /\ returned[1].log[3].after = StartState(returned[1])
    /\ eval_context.committed = StartState(returned[1])

====
